---- MODULE Spec2Model ----
(***************************************************************************)
(* A model of darktable's "velvia" image operation (src/iop/velvia.c):     *)
(* the versioned parameters and their migration, the per-pipeline working  *)
(* data and its life cycle, the general-path executor process() and the    *)
(* accelerator-path executor process_cl().                                 *)
(*                                                                         *)
(* C floats are modelled as fixed-point integers with FX units per 1.0     *)
(* (0.25f is 250).  Every float operation is the exact operation on these  *)
(* integers followed by rounding to the nearest unit, as a float operation *)
(* is the exact operation followed by rounding to the nearest float.       *)
(***************************************************************************)
EXTENDS Integers, Sequences, FiniteSets, TLC

(***************************************************************************)
(* Bounds of the model.                                                    *)
(***************************************************************************)
MaxW == 2          \* widest region of interest handed to an executor
MaxH == 2          \* highest region of interest handed to an executor
MaxAllocs == 2     \* pipeline constructions (init_pipe calls) per session
MaxDevErrors == 1  \* device calls that fail within one process_cl call
MaxVersion == 3    \* parameter versions 0..MaxVersion offered to legacy_params
NumImages == 3     \* input images offered to the executors

(***************************************************************************)
(* Fixed-point floats.                                                     *)
(***************************************************************************)
FX == 1000
EPS_INV == 100000  \* 1 / 1e-5f, the epsilon of the saturation estimate

Abs(a) == IF a < 0 THEN -a ELSE a
MAX(a, b) == IF a > b THEN a ELSE b
MIN(a, b) == IF a < b THEN a ELSE b
\* darktable's CLAMPS(A, L, H): ((A) > (L) ? ((A) < (H) ? (A) : (H)) : (L))
CLAMPS(a, lo, hi) == IF a > lo THEN (IF a < hi THEN a ELSE hi) ELSE lo

\* a / b rounded to the nearest integer, halves away from zero (b # 0)
RDiv(a, b) ==
  LET n == Abs(a)
      d == Abs(b)
      q == (n \div d) + (IF 2 * (n % d) >= d THEN 1 ELSE 0)
  IN IF (a < 0) = (b < 0) THEN q ELSE -q

\* float product and quotient of two fixed-point values: a * b / FX and
\* a * FX / b rounded to the nearest unit, each computed on a whole and a
\* fractional part so that no intermediate value leaves 32 bits.
FMul(a, b) ==
  LET x == IF b < 0 THEN -a ELSE a
      y == Abs(b)
  IN x * (y \div FX) + RDiv(x * (y % FX), FX)
FDiv(a, b) ==
  LET n == Abs(a)
      d == Abs(b)
      q == (n \div d) * FX + RDiv((n % d) * FX, d)
  IN IF (a < 0) = (b < 0) THEN q ELSE -q

(***************************************************************************)
(* Parameters and working data.                                            *)
(***************************************************************************)
NULL == 0

\* dt_iop_velvia_params_t: strength in percent, bias; both floats
Params(s, b) == [strength |-> s, bias |-> b]
DefaultParams == Params(25 * FX, FX)

\* the parameter values a session edits between (declared range and outside)
ParamValues ==
  { DefaultParams,
    Params(0, FX),
    Params(-10 * FX, FX \div 2),
    Params(100 * FX, 0) }

\* dt_iop_velvia_params1_t, the version 1 layout
Params1(s, v, l, c) == [saturation |-> s, vibrance |-> v, luminance |-> l, clarity |-> c]
OldBlobs ==
  { Params1(50 * FX, 50 * FX, FX, 0),
    Params1(100 * FX, 100 * FX, 0, FX),
    Params1(0, 80 * FX, FX \div 2, 0),
    Params1(200 * FX, 100 * FX, 2 * FX, 0) }   \* a stored blob beyond every range

(***************************************************************************)
(* Pixel buffers.  A buffer is an array of floats, ch floats per pixel;    *)
(* the executors are handed its base address.  The memory of a buffer is   *)
(* modelled one pixel longer than the largest region, so that an access    *)
(* beyond the region is an access the model can see.                       *)
(***************************************************************************)
CH == 4                              \* piece->colors of an RGB(A) module
MemPixels == MaxW * MaxH + 1
MemIdx == 0 .. (CH * MemPixels - 1)

\* a region of interest: origin and size (dt_iop_roi_t)
Roi(x, y, w, h) == [x |-> x, y |-> y, width |-> w, height |-> h]
RoiOrigins == { <<0, 0>>, <<1, 2>> }
Rois == { Roi(o[1], o[2], w, h) : o \in RoiOrigins, w \in 1 .. MaxW, h \in 1 .. MaxH }

\* The module defines neither modify_roi_in nor modify_roi_out, so the
\* pipeline hands both executors an input region equal to the output region.
RoiPairs == { <<r, r>> : r \in Rois }

\* representative pixels <<R, G, B, alpha>>: black, white, mid-gray, a red
\* whose luminance is exactly 0.5, the primaries, and two pixels outside [0,1]
Palette ==
  << <<0, 0, 0, 1000>>,
     <<800, 200, 200, 300>>,
     <<1200, 500, 300, 700>>,
     <<500, 500, 500, 500>>,
     <<1000, 0, 0, 100>>,
     <<-100, 400, 600, 900>>,
     <<1000, 1000, 1000, 0>>,
     <<0, 1000, 0, 200>>,
     <<0, 0, 1000, 400>> >>
Images == 0 .. (NumImages - 1)

\* what a caller-allocated output buffer holds before the executor runs
Garbage == <<-7, -7, -7, -7>>

\* the input buffer of image s: its pixels repeat three palette entries, so
\* that an image holds equal pixels at different places
Image(s) ==
  [i \in MemIdx |-> Palette[((2 * s + ((i \div CH) % 3)) % Len(Palette)) + 1][(i % CH) + 1]]
FreshOut == [i \in MemIdx |-> Garbage[(i % CH) + 1]]

(***************************************************************************)
(* The per-pixel transform, velvia.c lines 145-164.                        *)
(***************************************************************************)
\* denominators of the saturation estimate, in units of 1e-5
SatDenLow(pmax, pmin) == 1 + (EPS_INV \div FX) * (pmax + pmin)
SatDenHigh(pmax, pmin) == 1 + (EPS_INV \div FX) * MAX(0, 2 * FX - pmax - pmin)
\* the weight divided by 1 - bias
WeightDen_no_one(bias) == FX - bias
\* denominator of the weight
WeightDen(bias) == FX + (FX - bias)

\* x / den clamped to [0,1]; a float division by zero gives +-inf or NaN, and
\* CLAMPS maps +inf to the upper bound and -inf and NaN to the lower bound
ClampedQuotient(num, den) ==
  IF den = 0 THEN (IF num > 0 THEN FX ELSE 0) ELSE CLAMPS(FDiv(num, den), 0, FX)

\* (plum <= 0.5f): the branch of the saturation estimate below mid-gray
SatBranchLow(plum) == plum <= FX \div 2

pixel_psat(pmax, pmin) ==
  LET plum == RDiv(pmax + pmin, 2)
  IN IF SatBranchLow(plum)
       THEN RDiv((pmax - pmin) * (EPS_INV \div FX) * FX, SatDenLow(pmax, pmin))
       ELSE RDiv((pmax - pmin) * (EPS_INV \div FX) * FX, SatDenHigh(pmax, pmin))

pixel_pweight(pmax, pmin, bias) ==
  LET plum == RDiv(pmax + pmin, 2)
      psat == pixel_psat(pmax, pmin)
  IN ClampedQuotient((FX - FMul((3 * FX) \div 2, psat))
                       + FMul(FX + FMul(Abs(plum - FX \div 2), 2 * FX), FX - bias),
                     WeightDen(bias))

\* what one iteration divides by: the branch of the saturation estimate it
\* takes, that branch's denominator (in units of 1e-5) and the weight's
pixel_trace(i0, i1, i2, bias) ==
  LET pmax == MAX(i0, MAX(i1, i2))
      pmin == MIN(i0, MIN(i1, i2))
      plum == RDiv(pmax + pmin, 2)
  IN [pmax |-> pmax, pmin |-> pmin, plum |-> plum,
      low |-> SatBranchLow(plum),
      sat_den |-> IF SatBranchLow(plum) THEN SatDenLow(pmax, pmin) ELSE SatDenHigh(pmax, pmin),
      weight_den |-> WeightDen(bias)]

\* the loop body without the clamp of the stored channels
velvia_pixel_unclamped(i0, i1, i2, strength, bias) ==
  LET pmax == MAX(i0, MAX(i1, i2))
      pmin == MIN(i0, MIN(i1, i2))
      pweight == pixel_pweight(pmax, pmin, bias)
      saturation == FMul(strength, pweight)
  IN << i0 + FMul(saturation, i0 - FMul(FX \div 2, i1 + i2)),
        i1 + FMul(saturation, i1 - FMul(FX \div 2, i2 + i0)),
        i2 + FMul(saturation, i2 - FMul(FX \div 2, i0 + i1)) >>

\* the three colour channels the loop body stores for input pixel <<i0, i1, i2>>
velvia_pixel(i0, i1, i2, strength, bias) ==
  LET pmax == MAX(i0, MAX(i1, i2))
      pmin == MIN(i0, MIN(i1, i2))
      pweight == pixel_pweight(pmax, pmin, bias)
      saturation == FMul(strength, pweight)
  IN << CLAMPS(i0 + FMul(saturation, i0 - FMul(FX \div 2, i1 + i2)), 0, FX),
        CLAMPS(i1 + FMul(saturation, i1 - FMul(FX \div 2, i2 + i0)), 0, FX),
        CLAMPS(i2 + FMul(saturation, i2 - FMul(FX \div 2, i0 + i1)), 0, FX) >>

\* iteration k of the loop: the floats it reads and the floats it writes
WorkerIn(ch, k) == ch * k
\* the output pointer without the channel stride: out = ovoid + k
WorkerOut_no_stride(ch, k) == k
WorkerOut(ch, k) == ch * k
WorkerReads(ch, k) == { WorkerIn(ch, k) + c : c \in 0 .. 2 }
WorkerWrites(ch, k) == { WorkerOut(ch, k) + c : c \in 0 .. 2 }
WorkerResult(ch, k, ivoid, strength, bias) ==
  velvia_pixel(ivoid[WorkerIn(ch, k)], ivoid[WorkerIn(ch, k) + 1], ivoid[WorkerIn(ch, k) + 2],
               strength, bias)

\* the loop with k <= width * height
LoopCount_inclusive(roi_out) == roi_out.width * roi_out.height + 1

\* the number of iterations: k < (size_t)roi_out->width * roi_out->height
LoopCount(roi_out) == roi_out.width * roi_out.height

(***************************************************************************)
(* Helpers of the pipeline library that process() calls.                   *)
(***************************************************************************)
\* dt_iop_image_copy_by_size(out, in, width, height, ch): copies
\* width*height*ch floats from in to out
dt_iop_image_copy_by_size(out, in, width, height, ch) ==
  [path |-> "copy",
   ovoid |-> [i \in MemIdx |-> IF i < width * height * ch THEN in[i] ELSE out[i]],
   rd |-> { i \in MemIdx : i < width * height * ch },
   wr |-> { i \in MemIdx : i < width * height * ch }]

\* dt_iop_alpha_copy(in, out, width, height): copies the 4th float of each of
\* width*height 4-float pixels from in to out
dt_iop_alpha_copy(in, out, width, height) ==
  [ovoid |-> [i \in MemIdx |-> IF i < 4 * width * height /\ i % 4 = 3 THEN in[i] ELSE out[i]],
   rd |-> { i \in MemIdx : i < 4 * width * height /\ i % 4 = 3 },
   wr |-> { i \in MemIdx : i < 4 * width * height /\ i % 4 = 3 }]

(***************************************************************************)
(* process(), velvia.c lines 125-169.  The result is the branch taken, the  *)
(* output buffer after the call and the sets of floats read from ivoid and *)
(* written to ovoid.                                                       *)
(***************************************************************************)
StrengthOf(data) == FDiv(data.strength, 100 * FX)

\* the loop with the input addressed by the region's origin: in = ivoid + ch * (k + x)
process_loop_origin(data, ch, ivoid, ovoid, roi_out) ==
  LET strength == StrengthOf(data)
      ks == 0 .. (LoopCount(roi_out) - 1)
      src(k) == IF k + roi_out.x < MemPixels THEN k + roi_out.x ELSE k
  IN [path |-> "transform",
      ovoid |-> [i \in MemIdx |->
                   IF i \div ch \in ks /\ i % ch < 3
                     THEN WorkerResult(ch, src(i \div ch), ivoid, strength, data.bias)[(i % ch) + 1]
                     ELSE ovoid[i]],
      rd |-> UNION { WorkerReads(ch, src(k)) : k \in ks },
      wr |-> UNION { WorkerWrites(ch, k) : k \in ks }]

process_loop(data, ch, ivoid, ovoid, roi_out) ==
  LET strength == StrengthOf(data)
      n == LoopCount(roi_out)
      ks == 0 .. (n - 1)
      writer(i) == { k \in ks : i \in WorkerWrites(ch, k) }
      stored(i) == LET k == CHOOSE k \in writer(i) : \A j \in writer(i) : j <= k
                   IN WorkerResult(ch, k, ivoid, strength, data.bias)[i - WorkerOut(ch, k) + 1]
  IN [path |-> "transform",
      ovoid |-> [i \in MemIdx |-> IF writer(i) # {} THEN stored(i) ELSE ovoid[i]],
      rd |-> UNION { WorkerReads(ch, k) : k \in ks },
      wr |-> UNION { WorkerWrites(ch, k) : k \in ks }]

\* process() with the short-circuit taken for negative strength only
process_strict_zero(data, ch, mask_on, ivoid, ovoid, roi_in, roi_out) ==
  LET body == IF StrengthOf(data) < 0
                THEN dt_iop_image_copy_by_size(ovoid, ivoid, roi_out.width, roi_out.height, ch)
                ELSE process_loop(data, ch, ivoid, ovoid, roi_out)
      alpha == dt_iop_alpha_copy(ivoid, body.ovoid, roi_out.width, roi_out.height)
  IN IF mask_on
       THEN [path |-> body.path, ovoid |-> alpha.ovoid,
             rd |-> body.rd \cup alpha.rd, wr |-> body.wr \cup alpha.wr]
       ELSE body

\* process() that copies the alpha channel whatever the pipeline displays
process_alpha_always(data, ch, mask_on, ivoid, ovoid, roi_in, roi_out) ==
  LET body == IF StrengthOf(data) <= 0
                THEN dt_iop_image_copy_by_size(ovoid, ivoid, roi_out.width, roi_out.height, ch)
                ELSE process_loop(data, ch, ivoid, ovoid, roi_out)
      alpha == dt_iop_alpha_copy(ivoid, body.ovoid, roi_out.width, roi_out.height)
  IN [path |-> body.path, ovoid |-> alpha.ovoid,
      rd |-> body.rd \cup alpha.rd, wr |-> body.wr \cup alpha.wr]

process(data, ch, mask_on, ivoid, ovoid, roi_in, roi_out) ==
  LET body == IF StrengthOf(data) <= 0
                THEN dt_iop_image_copy_by_size(ovoid, ivoid, roi_out.width, roi_out.height, ch)
                ELSE process_loop(data, ch, ivoid, ovoid, roi_out)
      alpha == dt_iop_alpha_copy(ivoid, body.ovoid, roi_out.width, roi_out.height)
  IN IF mask_on
       THEN [path |-> body.path, ovoid |-> alpha.ovoid,
             rd |-> body.rd \cup alpha.rd, wr |-> body.wr \cup alpha.wr]
       ELSE body

(***************************************************************************)
(* legacy_params(), velvia.c lines 111-123.  The result is the return      *)
(* value and the two blobs after the call.                                 *)
(***************************************************************************)
\* legacy_params() that tests the old version only
legacy_params_any_target(old_params, old_version, new_params, new_version) ==
  IF old_version = 1
    THEN [ret |-> 0,
          new_params |-> Params(FDiv(FMul(old_params.saturation, old_params.vibrance), 100 * FX),
                                old_params.luminance),
          old_params |-> old_params]
    ELSE [ret |-> 1, new_params |-> new_params, old_params |-> old_params]

legacy_params(old_params, old_version, new_params, new_version) ==
  IF old_version = 1 /\ new_version = 2
    THEN [ret |-> 0,
          new_params |-> Params(FDiv(FMul(old_params.saturation, old_params.vibrance), 100 * FX),
                                old_params.luminance),
          old_params |-> old_params]
    ELSE [ret |-> 1, new_params |-> new_params, old_params |-> old_params]

(***************************************************************************)
(* The heap: the live blocks and how often each block was freed.           *)
(***************************************************************************)
Blocks == 1 .. (MaxAllocs + 1)
EmptyHeap == [live |-> {}, nfree |-> [b \in Blocks |-> 0]]

\* malloc/calloc: a new block, or NULL when the allocation fails
NewBlock(heap) == CHOOSE b \in Blocks : \A c \in Blocks : (heap.nfree[c] > 0 \/ c \in heap.live) => c < b
CanAlloc(heap) == \E b \in Blocks : \A c \in Blocks : (heap.nfree[c] > 0 \/ c \in heap.live) => c < b
malloc(heap, ok) ==
  IF ok THEN [ptr |-> NewBlock(heap), heap |-> [heap EXCEPT !.live = @ \cup {NewBlock(heap)}]]
        ELSE [ptr |-> NULL, heap |-> heap]

\* free(ptr): nothing for NULL
free(heap, ptr) ==
  IF ptr = NULL THEN heap
  ELSE [live |-> heap.live \ {ptr}, nfree |-> [heap.nfree EXCEPT ![ptr] = @ + 1]]

(***************************************************************************)
(* The pipeline-stage instance, velvia.c lines 233-252.                    *)
(***************************************************************************)
\* calloc(1, sizeof(dt_iop_velvia_data_t)): a zeroed working data
ZeroData == [strength |-> 0, bias |-> 0]

init_pipe(heap, ok) ==
  LET m == malloc(heap, ok)
  IN [piece_data |-> m.ptr, heap |-> m.heap, data |-> ZeroData]

\* commit_params() that forgets the bias
commit_params_bias_lost(p, d) == [strength |-> p.strength, bias |-> d.bias]

\* d->strength = p->strength; d->bias = p->bias;
commit_params(p, d) == [strength |-> p.strength, bias |-> p.bias]

\* cleanup_pipe() that leaves piece->data dangling
cleanup_pipe_dangling(heap, ptr) == [heap |-> free(heap, ptr), piece_data |-> ptr]

cleanup_pipe(heap, ptr) == [heap |-> free(heap, ptr), piece_data |-> NULL]

(***************************************************************************)
(* The accelerator: the device calls of process_cl(), velvia.c lines       *)
(* 172-213.  Each device call returns CL_SUCCESS or an error code; dev[i]  *)
(* is what the device answers to the i-th call of one process_cl().        *)
(***************************************************************************)
CL_SUCCESS == 0
CL_ERROR == -1
NoKernel == -1      \* dt_opencl_create_kernel found no device or no program
KernelHandle == 3   \* a kernel handle the session got

DevCalls == 1 .. 7
DevOutcomes ==
  { d \in [DevCalls -> {CL_SUCCESS, CL_ERROR}] :
      Cardinality({ i \in DevCalls : d[i] # CL_SUCCESS }) <= MaxDevErrors }

\* a call on a kernel that was never created fails
KernelCallResult(kernel, answer) == IF kernel < 0 THEN CL_ERROR ELSE answer

\* ROUNDUPWD / ROUNDUPHT: the global work size, a multiple of the device's
\* work-group granularity
ROUNDUPWD(a) == ((a + 15) \div 16) * 16
ROUNDUPHT(a) == ((a + 15) \div 16) * 16

SetKernelArg(kernel, num, value, answer) ==
  [fn |-> "set_kernel_arg", kernel |-> kernel, num |-> num, value |-> value,
   err |-> KernelCallResult(kernel, answer)]

\* process_cl returns TRUE unless the one call whose result it tests failed
process_cl_return(calls) == calls[Len(calls)].err = CL_SUCCESS

\* process_cl() with the short-circuit taken for negative strength only
process_cl_strict_zero(data, kernel, roi_in, roi_out, dev) ==
  LET width == roi_in.width
      height == roi_in.height
      strength == StrengthOf(data)
      calls ==
        IF strength < 0
          THEN << [fn |-> "enqueue_copy_image", src |-> "dev_in", dst |-> "dev_out",
                   origin |-> <<0, 0, 0>>, region |-> <<width, height, 1>>, err |-> dev[1]] >>
          ELSE << SetKernelArg(kernel, 0, "dev_in", dev[1]),
                  SetKernelArg(kernel, 1, "dev_out", dev[2]),
                  SetKernelArg(kernel, 2, width, dev[3]),
                  SetKernelArg(kernel, 3, height, dev[4]),
                  SetKernelArg(kernel, 4, strength, dev[5]),
                  SetKernelArg(kernel, 5, data.bias, dev[6]),
                  [fn |-> "enqueue_kernel_2d", kernel |-> kernel,
                   sizes |-> << ROUNDUPWD(width), ROUNDUPHT(height), 1 >>,
                   err |-> KernelCallResult(kernel, dev[7])] >>
  IN [calls |-> calls, ret |-> process_cl_return(calls)]

process_cl(data, kernel, roi_in, roi_out, dev) ==
  LET width == roi_in.width
      height == roi_in.height
      strength == StrengthOf(data)
      bias == data.bias
      sizes == << ROUNDUPWD(width), ROUNDUPHT(height), 1 >>
      calls ==
        IF strength <= 0
          THEN << [fn |-> "enqueue_copy_image", src |-> "dev_in", dst |-> "dev_out",
                   origin |-> <<0, 0, 0>>, region |-> <<width, height, 1>>, err |-> dev[1]] >>
          ELSE << SetKernelArg(kernel, 0, "dev_in", dev[1]),
                  SetKernelArg(kernel, 1, "dev_out", dev[2]),
                  SetKernelArg(kernel, 2, width, dev[3]),
                  SetKernelArg(kernel, 3, height, dev[4]),
                  SetKernelArg(kernel, 4, strength, dev[5]),
                  SetKernelArg(kernel, 5, bias, dev[6]),
                  [fn |-> "enqueue_kernel_2d", kernel |-> kernel, sizes |-> sizes,
                   err |-> KernelCallResult(kernel, dev[7])] >>
  IN [calls |-> calls, ret |-> process_cl_return(calls)]

(***************************************************************************)
(* The state of one session with one pipeline-stage instance.              *)
(***************************************************************************)
VARIABLES
  params,        \* self->params, the current Parameters
  piece_data,    \* piece->data: NULL or the block of the working data
  data,          \* the working data piece->data points to
  module_data,   \* module->data: NULL or the block of the global data
  kernel_velvia, \* gd->kernel_velvia
  heap,          \* the live blocks and the frees
  stage,         \* the instance's life cycle, as the scheduler drives it
  session,       \* "start", "loaded" (after init_global), "closed"
  mask_display,  \* piece->pipe->mask_display & DT_DEV_PIXELPIPE_DISPLAY_MASK
  fault,         \* a NULL pointer was dereferenced: the process is gone
  last,          \* the most recent call and what it was seen to do
  tile,          \* an image processed tile by tile (specification SpecTile)
  par,           \* the threads of one pixel loop (specification SpecPar)
  px,            \* one pixel put through process() (specification SpecPixel)
  bench,         \* one run of darktable-bench (specification SpecBench)
  dng            \* one DNG file being written (specification SpecDng)

vars == << params, piece_data, data, module_data, kernel_velvia, heap,
           stage, session, mask_display, fault, last, tile, par, px, bench, dng >>

NoTile == [image |-> 0, rois |-> {}, out |-> FreshOut]
NoPar == [n |-> 0]
NoPx == [phase |-> "none"]
NoBench == [phase |-> "none"]
NoDng == [phase |-> "none"]

Init ==
  /\ params = DefaultParams
  /\ piece_data = NULL
  /\ data = ZeroData
  /\ module_data = NULL
  /\ kernel_velvia = NoKernel
  /\ heap = EmptyHeap
  /\ stage = "uninitialized"
  /\ session = "start"
  /\ mask_display = FALSE
  /\ fault = FALSE
  /\ last = [op |-> "none"]
  /\ tile = NoTile
  /\ par = NoPar
  /\ px = NoPx
  /\ bench = NoBench
  /\ dng = NoDng

\* The caller takes the result of an executor or of a migration before it
\* calls the module again.
ResultOps == {"process", "process_cl", "legacy_params"}
Idle == session = "loaded" /\ ~fault /\ last.op \notin ResultOps

\* Working Data is rebuilt whenever Parameters change: the scheduler commits
\* again before it runs an executor.
StageAfterEdit(st) == IF st = "committed" THEN "bound" ELSE st

\* init_global(): malloc the global data, create the kernel
Call_init_global ==
  /\ session = "start" /\ ~fault
  /\ \E ok \in BOOLEAN, k \in {NoKernel, KernelHandle} :
       LET m == malloc(heap, ok)
       IN /\ module_data' = m.ptr
          /\ heap' = m.heap
          /\ kernel_velvia' = IF m.ptr = NULL THEN kernel_velvia ELSE k
          /\ fault' = (m.ptr = NULL)     \* gd->kernel_velvia = ... through NULL
          /\ last' = [op |-> "init_global", alloc_failed |-> ~ok]
  /\ session' = "loaded"
  /\ UNCHANGED << params, piece_data, data, stage, mask_display >>
  /\ UNCHANGED << tile, par, px, bench, dng >>

\* cleanup_global(): at the end of the session, no instance left
Call_cleanup_global ==
  /\ Idle
  /\ stage \in {"uninitialized", "released"}
  /\ heap' = free(heap, module_data)
  /\ module_data' = NULL
  /\ kernel_velvia' = NoKernel
  /\ session' = "closed"
  /\ last' = [op |-> "cleanup_global"]
  /\ UNCHANGED << params, piece_data, data, stage, mask_display, fault >>
  /\ UNCHANGED << tile, par, px, bench, dng >>

\* the user changes a control: the Parameters are superseded
Call_set_params ==
  /\ Idle
  /\ \E p \in ParamValues : p # params /\ params' = p
  /\ stage' = StageAfterEdit(stage)
  /\ last' = [op |-> "set_params"]
  /\ UNCHANGED << piece_data, data, module_data, kernel_velvia, heap,
                  session, mask_display, fault >>
  /\ UNCHANGED << tile, par, px, bench, dng >>

\* the user toggles the mask preview of the pipeline
Call_set_mask_display ==
  /\ Idle
  /\ mask_display' = ~mask_display
  /\ last' = [op |-> "set_mask_display"]
  /\ UNCHANGED << params, piece_data, data, module_data, kernel_velvia, heap,
                  stage, session, fault >>
  /\ UNCHANGED << tile, par, px, bench, dng >>

\* legacy_params() on a stored blob of any version, into a buffer of the caller
Call_legacy_params ==
  /\ Idle
  /\ \E old \in OldBlobs, ov \in 0 .. MaxVersion, nv \in 0 .. MaxVersion :
       LET r == legacy_params(old, ov, DefaultParams, nv)
       IN last' = [op |-> "legacy_params", old_version |-> ov, new_version |-> nv,
                   old_before |-> old, old_after |-> r.old_params,
                   new_before |-> DefaultParams, new_after |-> r.new_params, ret |-> r.ret]
  /\ UNCHANGED << params, piece_data, data, module_data, kernel_velvia, heap,
                  stage, session, mask_display, fault >>
  /\ UNCHANGED << tile, par, px, bench, dng >>

\* the caller of legacy_params: the migrated blob becomes the Parameters, and
\* a blob that could not be migrated is replaced by the defaults
Call_load_params ==
  /\ last.op = "legacy_params" /\ ~fault
  /\ params' = IF last.ret = 0 THEN last.new_after ELSE DefaultParams
  /\ stage' = StageAfterEdit(stage)
  /\ last' = [op |-> "load_params"]
  /\ UNCHANGED << piece_data, data, module_data, kernel_velvia, heap,
                  session, mask_display, fault >>
  /\ UNCHANGED << tile, par, px, bench, dng >>

\* init_pipe(): once per pipeline construction
Call_init_pipe ==
  /\ Idle
  /\ stage \in {"uninitialized", "released"}
  /\ CanAlloc(heap)
  /\ \E ok \in BOOLEAN :
       LET r == init_pipe(heap, ok)
       IN /\ piece_data' = r.piece_data
          /\ heap' = r.heap
          /\ data' = r.data
          /\ last' = [op |-> "init_pipe", alloc_failed |-> ~ok]
  /\ stage' = "bound"
  /\ UNCHANGED << params, module_data, kernel_velvia, session, mask_display, fault >>
  /\ UNCHANGED << tile, par, px, bench, dng >>

\* commit_params(): on a bound or committed instance
Call_commit_params ==
  /\ Idle
  /\ stage \in {"bound", "committed"}
  /\ IF piece_data = NULL
       THEN /\ fault' = TRUE               \* d->strength = ... through NULL
            /\ UNCHANGED data
       ELSE /\ data' = commit_params(params, data)
            /\ UNCHANGED fault
  /\ stage' = "committed"
  /\ last' = [op |-> "commit_params", committed |-> params, before |-> data]
  /\ UNCHANGED << params, piece_data, module_data, kernel_velvia, heap,
                  session, mask_display >>
  /\ UNCHANGED << tile, par, px, bench, dng >>

\* cleanup_pipe(): from any state of the life cycle
Call_cleanup_pipe ==
  /\ Idle
  /\ LET r == cleanup_pipe(heap, piece_data)
     IN /\ heap' = r.heap
        /\ piece_data' = r.piece_data
        /\ last' = [op |-> "cleanup_pipe", from |-> stage, freed |-> piece_data]
  /\ data' = ZeroData
  /\ stage' = "released"
  /\ UNCHANGED << params, module_data, kernel_velvia, session, mask_display, fault >>
  /\ UNCHANGED << tile, par, px, bench, dng >>

\* process() on a committed instance
Call_process ==
  /\ Idle
  /\ stage = "committed"
  /\ \E rr \in RoiPairs, s \in Images :
       LET r == process(data, CH, mask_display, Image(s), FreshOut, rr[1], rr[2])
       IN last' = [op |-> "process", roi_in |-> rr[1], roi_out |-> rr[2], image |-> s,
                   path |-> r.path, ovoid |-> r.ovoid, rd |-> r.rd, wr |-> r.wr]
  /\ UNCHANGED << params, piece_data, data, module_data, kernel_velvia, heap,
                  stage, session, mask_display, fault >>
  /\ UNCHANGED << tile, par, px, bench, dng >>

\* process_cl() on a committed instance
Call_process_cl ==
  /\ Idle
  /\ stage = "committed"
  /\ \E rr \in RoiPairs, dev \in DevOutcomes :
       LET r == process_cl(data, kernel_velvia, rr[1], rr[2], dev)
       IN last' = [op |-> "process_cl", roi_in |-> rr[1], roi_out |-> rr[2],
                   calls |-> r.calls, ret |-> r.ret]
  /\ UNCHANGED << params, piece_data, data, module_data, kernel_velvia, heap,
                  stage, session, mask_display, fault >>
  /\ UNCHANGED << tile, par, px, bench, dng >>

\* the scheduler takes the executor's result: the stage boundary
Call_handoff ==
  /\ last.op \in {"process", "process_cl"} /\ ~fault
  /\ last' = [op |-> "handoff"]
  /\ UNCHANGED << params, piece_data, data, module_data, kernel_velvia, heap,
                  stage, session, mask_display, fault >>
  /\ UNCHANGED << tile, par, px, bench, dng >>

Next ==
  \/ Call_init_global
  \/ Call_cleanup_global
  \/ Call_set_params
  \/ Call_set_mask_display
  \/ Call_legacy_params
  \/ Call_load_params
  \/ Call_init_pipe
  \/ Call_commit_params
  \/ Call_cleanup_pipe
  \/ Call_process
  \/ Call_process_cl
  \/ Call_handoff

Spec == Init /\ [][Next]_vars

(***************************************************************************)
(* Tiling (specification SpecTile).  A committed instance processes one    *)
(* image of MaxW x MaxH pixels in several process() calls, each on a tile: *)
(* the whole image, or one side of a vertical or horizontal cut.  The      *)
(* tiling code copies the tile's pixels into a buffer of its own, calls    *)
(* process() on it with the tile as both regions, and copies the result    *)
(* into the output image.                                                  *)
(***************************************************************************)
WholeRoi == Roi(0, 0, MaxW, MaxH)
Tiles ==
  {WholeRoi}
    \cup { Roi(0, 0, c, MaxH) : c \in 1 .. (MaxW - 1) }
    \cup { Roi(c, 0, MaxW - c, MaxH) : c \in 1 .. (MaxW - 1) }
    \cup { Roi(0, 0, MaxW, r) : r \in 1 .. (MaxH - 1) }
    \cup { Roi(0, r, MaxW, MaxH - r) : r \in 1 .. (MaxH - 1) }

\* the image pixel under pixel j of tile roi
TilePixel(roi, j) == (roi.y + (j \div roi.width)) * MaxW + (roi.x + (j % roi.width))
TilePixels(roi) == { TilePixel(roi, j) : j \in 0 .. (roi.width * roi.height - 1) }

\* the tile's input buffer, cut out of the image
TileIn(img, roi) ==
  [i \in MemIdx |->
     IF i \div CH < roi.width * roi.height
       THEN img[CH * TilePixel(roi, i \div CH) + (i % CH)]
       ELSE Garbage[(i % CH) + 1]]

\* the output image after the tile's output buffer is copied into it
TileOut(out, buf, roi) ==
  [i \in MemIdx |->
     IF \E j \in 0 .. (roi.width * roi.height - 1) : TilePixel(roi, j) = i \div CH
       THEN LET j == CHOOSE j \in 0 .. (roi.width * roi.height - 1) : TilePixel(roi, j) = i \div CH
            IN buf[CH * j + (i % CH)]
       ELSE out[i]]

InitTile ==
  /\ params \in ParamValues
  /\ data = commit_params(params, ZeroData)
  /\ mask_display \in BOOLEAN
  /\ module_data = 1
  /\ piece_data = 2
  /\ heap = [EmptyHeap EXCEPT !.live = {1, 2}]
  /\ kernel_velvia = KernelHandle
  /\ stage = "committed"
  /\ session = "loaded"
  /\ fault = FALSE
  /\ last = [op |-> "none"]
  /\ tile \in { [image |-> s, rois |-> {}, out |-> FreshOut] : s \in Images }
  /\ par = NoPar
  /\ px = NoPx
  /\ bench = NoBench
  /\ dng = NoDng

Tile_process ==
  /\ \E roi \in Tiles \ tile.rois :
       LET r == process(data, CH, mask_display, TileIn(Image(tile.image), roi), FreshOut, roi, roi)
       IN tile' = [image |-> tile.image, rois |-> tile.rois \cup {roi},
                   out |-> TileOut(tile.out, r.ovoid, roi)]
  /\ UNCHANGED << params, piece_data, data, module_data, kernel_velvia, heap,
                  stage, session, mask_display, fault, last, par, px, bench, dng >>

NextTile == Tile_process

SpecTile == InitTile /\ [][NextTile]_vars

(***************************************************************************)
(* The parallel pixel loop (specification SpecPar), velvia.c lines         *)
(* 138-165: the iterations k of one process() call on a region of          *)
(* ParPixels pixels are dealt to NumThreads threads.  A thread takes its   *)
(* iterations in increasing k; an iteration loads its input pixel and      *)
(* computes the three channels in locals of its own, then stores them one  *)
(* by one.  Steps of different threads interleave in any order.            *)
(***************************************************************************)
NumThreads == 2
ParPixels == 3

Threads == 1 .. NumThreads
ParRoi == Roi(0, 0, ParPixels, 1)
ParIn == Image(0)

\* the transform branch only: a strength above zero
InitPar ==
  /\ params \in { p \in ParamValues : StrengthOf(commit_params(p, ZeroData)) > 0 }
  /\ data = commit_params(params, ZeroData)
  /\ mask_display = FALSE
  /\ module_data = 1
  /\ piece_data = 2
  /\ heap = [EmptyHeap EXCEPT !.live = {1, 2}]
  /\ kernel_velvia = KernelHandle
  /\ stage = "committed"
  /\ session = "loaded"
  /\ fault = FALSE
  /\ last = [op |-> "none"]
  /\ tile = NoTile
  /\ px = NoPx
  /\ bench = NoBench
  /\ dng = NoDng
  /\ par \in { [n |-> LoopCount(ParRoi),
               asg |-> a,
               cur |-> [t \in Threads |-> -1],
               phase |-> [t \in Threads |-> 0],
               loc |-> [t \in Threads |-> <<0, 0, 0>>],
               finished |-> {},
               out |-> FreshOut,
               rdlog |-> [i \in MemIdx |-> {}],
               wrlog |-> [i \in MemIdx |-> {}]] :
             a \in [0 .. (LoopCount(ParRoi) - 1) -> Threads] }

ParFrame ==
  UNCHANGED << params, piece_data, data, module_data, kernel_velvia, heap,
               stage, session, mask_display, fault, last, tile, px, bench, dng >>

\* thread t starts its next iteration: in[0..2] are read, the locals computed
Worker_load(t) ==
  /\ par.cur[t] = -1
  /\ \E k \in 0 .. (par.n - 1) :
       /\ par.asg[k] = t /\ k \notin par.finished
       /\ \A j \in 0 .. (k - 1) : par.asg[j] = t => j \in par.finished
       /\ par' = [par EXCEPT
                    !.cur[t] = k,
                    !.phase[t] = 0,
                    !.loc[t] = WorkerResult(CH, k, ParIn, StrengthOf(data), data.bias),
                    !.rdlog = [i \in MemIdx |-> IF i \in WorkerReads(CH, k)
                                                  THEN @[i] \cup {k} ELSE @[i]]]
  /\ ParFrame

\* thread t stores the next channel: out[phase] = ...
Worker_store(t) ==
  /\ par.cur[t] # -1
  /\ LET k == par.cur[t]
         c == par.phase[t]
         i == WorkerOut(CH, k) + c
     IN par' = [par EXCEPT
                  !.out[i] = par.loc[t][c + 1],
                  !.wrlog[i] = @ \cup {k},
                  !.phase[t] = IF c = 2 THEN 0 ELSE c + 1,
                  !.cur[t] = IF c = 2 THEN -1 ELSE k,
                  !.loc[t] = IF c = 2 THEN <<0, 0, 0>> ELSE @,
                  !.finished = IF c = 2 THEN @ \cup {k} ELSE @]
  /\ ParFrame

NextPar == \E t \in Threads : Worker_load(t) \/ Worker_store(t)

SpecPar == InitPar /\ [][NextPar]_vars

(***************************************************************************)
(* One pixel (specification SpecPixel): process() on a region of one pixel *)
(* whose channels, and the strength and bias of the committed working      *)
(* data, are drawn from grids over the declared ranges and from a few      *)
(* values outside them.                                                    *)
(***************************************************************************)
GridSteps == 4       \* the channel grid has GridSteps + 1 levels over [0,1]
StrengthSteps == 4   \* the strength grid has StrengthSteps + 1 levels over [0,100]
BiasSteps == 2       \* the bias grid has BiasSteps + 1 levels over [0,1]

\* channel values within [0,1]: the grid, and 0.2 and 0.8
ChannelLevels ==
  { (FX * i) \div GridSteps : i \in 0 .. GridSteps } \cup { FX \div 5, (4 * FX) \div 5 }
\* and two values outside
PixelLevels == ChannelLevels \cup { -(FX \div 10), (6 * FX) \div 5 }

\* strength $MIN: 0.0 $MAX: 100.0, bias $MIN: 0.0 $MAX: 1.0
StrengthLevels == { (100 * FX * i) \div StrengthSteps : i \in 0 .. StrengthSteps }
BiasLevels == { (FX * i) \div BiasSteps : i \in 0 .. BiasSteps }
PixelParams ==
  { Params(st, b) : st \in StrengthLevels \cup { 200 * FX }, b \in BiasLevels \cup { 2 * FX } }

OneRoi == Roi(0, 0, 1, 1)
PixelBuf(p) == [i \in MemIdx |-> IF i < CH THEN p[i + 1] ELSE Garbage[(i % CH) + 1]]

InitPixel ==
  /\ params \in PixelParams
  /\ data = commit_params(params, ZeroData)
  /\ mask_display = FALSE
  /\ module_data = 1
  /\ piece_data = 2
  /\ heap = [EmptyHeap EXCEPT !.live = {1, 2}]
  /\ kernel_velvia = KernelHandle
  /\ stage = "committed"
  /\ session = "loaded"
  /\ fault = FALSE
  /\ last = [op |-> "none"]
  /\ tile = NoTile
  /\ par = NoPar
  /\ px \in { [phase |-> "in", pixel |-> << r, g, b, FX \div 4 >>] :
               r \in PixelLevels, g \in PixelLevels, b \in PixelLevels }
  /\ bench = NoBench
  /\ dng = NoDng

Pixel_process ==
  /\ px.phase = "in"
  /\ LET r == process(data, CH, mask_display, PixelBuf(px.pixel), FreshOut, OneRoi, OneRoi)
     IN px' = [phase |-> "out", pixel |-> px.pixel, path |-> r.path,
               out |-> << r.ovoid[0], r.ovoid[1], r.ovoid[2], r.ovoid[3] >>,
               trace |-> pixel_trace(px.pixel[1], px.pixel[2], px.pixel[3], data.bias)]
  /\ UNCHANGED << params, piece_data, data, module_data, kernel_velvia, heap,
                  stage, session, mask_display, fault, last, tile, par, bench, dng >>

NextPixel == Pixel_process

SpecPixel == InitPixel /\ [][NextPixel]_vars

(***************************************************************************)
(* darktable-bench (specification SpecBench): one run of the script.  A    *)
(* diagnostic line is a sequence of tokens, a word or a number; times are  *)
(* in milliseconds, as darktable prints them ("took 0.062 secs").  Each    *)
(* line is one message of darktable, so it carries at most one of the      *)
(* three timing phrases.                                                   *)
(***************************************************************************)
MaxLines == 2   \* lines of diagnostic output per darktable-cli run
MaxReps == 2    \* --reps, at most (the script accepts 1..9)

W(w) == [w |-> w, v |-> 0]
N(v) == [w |-> "num", v |-> v]

DiagLines ==
  { << W("[export]"), W("took"), N(62), W("sec"), W("to load the image") >>,
    << W("[export]"), W("took"), N(80), W("sec"), W("to load the image") >>,
    << W("[dev_process_export]"), W("pipeline processing"), W("took"), N(500), W("sec") >>,
    << W("[dev_process_export]"), W("pipeline processing"), W("took"), N(300), W("sec"), W("GPU") >>,
    << W("[export]"), W("took"), N(30), W("sec"), W("to save the image") >>,
    << W("[export]"), N(5), W("sec"), W("to load the image") >>,
    << W("[dev_process_export]"), W("pipeline processing"), W("took"), N(7) >>,
    << W("[opencl_init]"), W("device"), W("GPU") >>,
    << W("took"), N(9), W("sec"), W("to load the image") >> }

RECURSIVE SeqsUpTo(_, _)
SeqsUpTo(S, n) ==
  IF n = 0 THEN { <<>> }
  ELSE LET shorter == SeqsUpTo(S, n - 1)
       IN shorter \cup { Append(t, x) : t \in shorter, x \in S }
DiagTraces == SeqsUpTo(DiagLines, MaxLines)

\* str.find(word): the position of the first occurrence, -1 if there is none
Find(line, w) ==
  IF \E i \in 1 .. Len(line) : line[i].w = w
    THEN (CHOOSE i \in 1 .. Len(line) :
            line[i].w = w /\ \A j \in 1 .. (i - 1) : line[j].w # w) - 1
    ELSE -1
\* phrase in line
Has(line, phrase) ==
  \E i \in 1 .. (Len(line) - Len(phrase) + 1) :
    \A j \in 1 .. Len(phrase) : line[i + j - 1].w = phrase[j]
\* float(text.strip()) of the text between 'took' and 'sec', a number as
\* darktable prints it
Float(text) == text[Len(text)].v

extract_seconds(line) ==
  LET pos == Find(line, "took")
      rest == SubSeq(line, pos + 2, Len(line))          \* line[pos+4:]
      pos2 == Find(rest, "sec")
  IN IF pos > 0
       THEN IF pos2 > 0 THEN Float(SubSeq(rest, 1, pos2)) ELSE 0
       ELSE 0

\* the loop of run_benchmark over the lines of the output
RECURSIVE scan_trace(_, _, _)
scan_trace(trace, i, acc) ==
  IF i > Len(trace) THEN acc
  ELSE LET t == trace[i]
           g == IF Has(t, << "GPU" >>) THEN TRUE ELSE acc.gpu
           a == IF Has(t, << "to load the image" >>)
                  THEN [acc EXCEPT !.loadtime = extract_seconds(t)]
                ELSE IF Has(t, << "to save the image" >>)
                  THEN [acc EXCEPT !.savetime = extract_seconds(t)]
                ELSE IF Has(t, << "pipeline processing", "took" >>)
                  THEN [acc EXCEPT !.pixpipe = extract_seconds(t)]
                ELSE acc
       IN scan_trace(trace, i + 1, [a EXCEPT !.gpu = g])

run_benchmark(trace) ==
  LET acc == scan_trace(trace, 1, [loadtime |-> 0, savetime |-> -1, pixpipe |-> 0, gpu |-> FALSE])
      savetime == IF acc.savetime < 0 THEN acc.loadtime ELSE acc.savetime
  IN [pixpipe |-> acc.pixpipe,
      total |-> acc.loadtime + acc.pixpipe + savetime,
      gpu |-> acc.gpu]

\* print_performance: the two averages, then 3600 / total, then the rating
\* line that says whether a GPU was used; a total of zero raises
\* ZeroDivisionError before that line is printed
NotPrinted == "not printed"
print_performance(pixpipe, total, used_gpu) ==
  [pixpipe |-> pixpipe, total |-> total,
   gpu |-> IF total = 0 THEN NotPrinted
           ELSE IF used_gpu THEN "using GPU" ELSE "CPU only",
   raised |-> total = 0]

\* main(), lines 317-338: the command line is parsed, the caches are warmed
\* up by one run whose result is dropped, then come args.reps runs and the
\* report.  bench.runs keeps what each run was given and what it returned.
NoReport == [pixpipe |-> 0, total |-> 0, gpu |-> NotPrinted, raised |-> FALSE]

InitBench ==
  /\ params = DefaultParams
  /\ piece_data = NULL
  /\ data = ZeroData
  /\ module_data = NULL
  /\ kernel_velvia = NoKernel
  /\ heap = EmptyHeap
  /\ stage = "uninitialized"
  /\ session = "start"
  /\ mask_display = FALSE
  /\ fault = FALSE
  /\ last = [op |-> "none"]
  /\ tile = NoTile
  /\ par = NoPar
  /\ px = NoPx
  /\ dng = NoDng
  /\ bench \in { [pc |-> "warm_up", reps |-> n, rep |-> 0, pixpipe |-> 0, total |-> 0,
                  used_gpu |-> FALSE, runs |-> << >>, report |-> NoReport] :
                 n \in 1 .. MaxReps }

BenchFrame ==
  UNCHANGED << params, piece_data, data, module_data, kernel_velvia, heap,
               stage, session, mask_display, fault, last, tile, par, px, dng >>

\* warm_up_caches: run_benchmark on the null sidecar, its result unused
Bench_warm_up ==
  /\ bench.pc = "warm_up"
  /\ \E trace \in DiagTraces :
       LET r == run_benchmark(trace)
       IN bench' = [bench EXCEPT !.pc = "runs"]
  /\ BenchFrame

\* one iteration of the loop of main
Bench_run ==
  /\ bench.pc = "runs" /\ bench.rep < bench.reps
  /\ \E trace \in DiagTraces :
       LET r == run_benchmark(trace)
       IN bench' = [bench EXCEPT
                      !.rep = @ + 1,
                      !.pixpipe = @ + r.pixpipe,
                      !.total = @ + r.total,
                      !.used_gpu = IF r.gpu THEN TRUE ELSE @,
                      !.runs = Append(@, [trace |-> trace, p |-> r.pixpipe,
                                          t |-> r.total, g |-> r.gpu])]
  /\ BenchFrame

\* after the loop: the averages, print_performance, cleanup
Bench_report ==
  /\ bench.pc = "runs" /\ bench.rep = bench.reps
  /\ LET total == RDiv(bench.total, bench.reps)
         pixpipe == RDiv(bench.pixpipe, bench.reps)
         out == print_performance(pixpipe, total, bench.used_gpu)
     IN bench' = [bench EXCEPT
                    !.total = total,
                    !.pixpipe = pixpipe,
                    !.report = out,
                    !.pc = IF out.raised THEN "raised" ELSE "done"]
  /\ BenchFrame

NextBench ==
  \/ Bench_warm_up
  \/ Bench_run
  \/ Bench_report

SpecBench == InitBench /\ [][NextBench]_vars

(***************************************************************************)
(* The DNG writer, imageio_dng.h (specification SpecDng).  A 32-bit value  *)
(* is a pair << high 16 bits, low 16 bits >>; the header buffer is an      *)
(* array of bytes.                                                         *)
(***************************************************************************)
BYTE == 1
ASCII == 2
SHORT == 3
LONG == 4
RATIONAL == 5
SRATIONAL == 10

BufSize == 1024        \* uint8_t buf[1024]
HeaderSize == 584      \* fwrite(buf, 1, 584, fp)
ADOBE_COEFF_FACTOR == 10000

\* the 32 bits of an int, and of (v << 16)
U32(v) == << (v \div 65536) % 65536, v % 65536 >>
Shl16(v) == << v % 65536, 0 >>

\* dt_imageio_dng_write_buf: val, most significant byte first, at buf[adr..adr+3]
dt_imageio_dng_write_buf(buf, adr, val) ==
  [buf EXCEPT ![adr] = val[1] \div 256, ![adr + 1] = val[1] % 256,
              ![adr + 2] = val[2] \div 256, ![adr + 3] = val[2] % 256]

\* dt_imageio_dng_make_tag on the writer's state: the buffer, the position b
\* and the counter cnt (a uint8_t); emitted remembers the calls
dt_imageio_dng_make_tag(tag, type, lng, fld, st) ==
  LET b0 == dt_imageio_dng_write_buf(st.buf, st.b, << tag, type >>)
      b1 == dt_imageio_dng_write_buf(b0, st.b + 4, lng)
      b2 == dt_imageio_dng_write_buf(b1, st.b + 8, fld)
  IN [buf |-> b2, b |-> st.b + 12, cnt |-> (st.cnt + 1) % 256,
      emitted |-> Append(st.emitted, [tag |-> tag, at |-> st.b])]

\* the filters: X-Trans is 9, a Bayer filter is one byte four times
XTRANS == << 0, 0, 0, 9 >>
BayerFilters == { << 148, 148, 148, 148 >>, << 73, 73, 73, 73 >>,
                  << 97, 97, 97, 97 >>, << 22, 22, 22, 22 >> }

\* switch(filter): the four colours of the Bayer pattern, one per byte
cfapattern(filter) ==
  IF filter = << 148, 148, 148, 148 >> THEN << 0 * 256 + 1, 1 * 256 + 2 >>        \* rggb
  ELSE IF filter = << 73, 73, 73, 73 >> THEN << 1 * 256 + 2, 0 * 256 + 1 >>       \* gbrg
  ELSE IF filter = << 97, 97, 97, 97 >> THEN << 1 * 256 + 0, 2 * 256 + 1 >>       \* grbg
  ELSE << 2 * 256 + 1, 1 * 256 + 0 >>                                             \* bggr

\* the calls of dt_imageio_dng_make_tag, in the order of lines 101-166
HeaderTags(xs, ys, filter, white) ==
  << << 254, LONG, U32(1), U32(0) >>,
     << 256, SHORT, U32(1), Shl16(xs) >>,
     << 257, SHORT, U32(1), Shl16(ys) >>,
     << 258, SHORT, U32(1), Shl16(32) >>,
     << 259, SHORT, U32(1), Shl16(1) >>,
     << 262, SHORT, U32(1), Shl16(32803) >>,
     << 273, LONG, U32(1), U32(584) >>,
     << 274, SHORT, U32(1), Shl16(1) >>,
     << 277, SHORT, U32(1), Shl16(1) >>,
     << 278, SHORT, U32(1), Shl16(ys) >>,
     << 279, LONG, U32(1), U32(ys * xs * 1 * 4) >>,
     << 284, SHORT, U32(1), Shl16(1) >>,
     << 339, SHORT, U32(1), Shl16(3) >>,
     IF filter = XTRANS THEN << 33421, SHORT, U32(2), << 6, 6 >> >>
                        ELSE << 33421, SHORT, U32(2), << 2, 2 >> >>,
     IF filter = XTRANS THEN << 33422, BYTE, U32(36), U32(400) >>
                        ELSE << 33422, BYTE, U32(4), cfapattern(filter) >>,
     << 50706, BYTE, U32(4), << 1 * 256 + 2, 0 >> >>,
     << 50707, BYTE, U32(4), << 1 * 256 + 1, 0 >> >>,
     << 50717, LONG, U32(1), white >>,
     << 50721, SRATIONAL, U32(9), U32(480) >>,
     << 50728, RATIONAL, U32(3), U32(556) >>,
     << 50778, SHORT, U32(1), Shl16(21) >>,
     << 0, 0, U32(0), U32(0) >> >>

\* buf[11] = cnt: the terminating entry counted as a tag
DirCount_with_terminator(cnt) == cnt
\* buf[11] = cnt - 1
DirCount(cnt) == (cnt - 1) % 256

\* the generic XYZ->sRGB / D65 matrix and its denominator
GenericMatrix == << 3240454, -1537138, -498531, -969266, 1876010, 41556, 55643, -204025, 1057225 >>
GenericDen == 1000000
\* a camera matrix is NaN or nine coefficients, in units of 1 / ADOBE_COEFF_FACTOR
NoCamMatrix == [nan |-> TRUE, m |-> << 0, 0, 0, 0, 0, 0, 0, 0, 0 >>]

RECURSIVE write_rationals(_, _, _, _, _, _)
\* for(k = 0; k < n; k++) { write_buf(buf, at + k*8, num[k]); write_buf(buf, at + 4 + k*8, den); }
write_rationals(buf, at, num, den, k, n) ==
  IF k >= n THEN buf
  ELSE write_rationals(
         dt_imageio_dng_write_buf(
           dt_imageio_dng_write_buf(buf, at + k * 8, U32(num[k + 1])),
           at + 4 + k * 8, U32(den)),
         at, num, den, k + 1, n)

\* dt_imageio_dng_write_tiff_header, lines 93-100: the cleared buffer with the
\* TIFF file header (big-endian, magic 42, first directory at 10), b = buf + 12
header_begin ==
  [buf |-> [[i \in 0 .. (BufSize - 1) |-> 0] EXCEPT ![0] = 77, ![1] = 77, ![3] = 42, ![7] = 10],
   b |-> 12, cnt |-> 0, emitted |-> << >>]

\* lines 167-196, after the last dt_imageio_dng_make_tag: the entry count, the
\* X-Trans array, ColorMatrix1 and AsShotNeutral
header_end(st, xtrans, wb_coeffs, cam) ==
  LET copied == [i \in 0 .. (BufSize - 1) |->
                   IF i >= 400 /\ i < 400 + 36 THEN xtrans[i - 400 + 1]   \* memcpy(buf+400, xtrans, 36)
                   ELSE IF i = 11 THEN DirCount(st.cnt)                    \* buf[11] = cnt - 1
                   ELSE st.buf[i]]
      m == IF cam.nan THEN GenericMatrix ELSE cam.m
      den == IF cam.nan THEN GenericDen ELSE ADOBE_COEFF_FACTOR
      matrix == write_rationals(copied, 480, m, den, 0, 9)
      coeff == [k \in 1 .. 3 |-> RDiv(1000000 * wb_coeffs[2], wb_coeffs[k])]
  IN write_rationals(matrix, 556, coeff, 1000000, 0, 3)

\* the bytes the three blocks of data are written to
XtransBytes == 400 .. (400 + 36 - 1)
MatrixBytes == UNION { (480 + k * 8) .. (484 + k * 8 + 3) : k \in 0 .. 8 }
NeutralBytes == UNION { (556 + k * 8) .. (560 + k * 8 + 3) : k \in 0 .. 2 }

\* the file: the bytes of the header that reached it, where the pixel data
\* starts and how long it is, and what was reported on stderr
NoFile == [opened |-> FALSE, hdr |-> << >>, data_at |-> 0, data_len |-> 0, errors |-> {}]

\* the arguments of dt_imageio_write_dng: the bits of the white levels 1.0f
\* and 16383.0f, white balance coefficients in thousandths, the X-Trans layout
\* of a sensor and an all-zero array, no camera matrix and a camera matrix
WhiteLevels == { << 16256, 0 >>, << 18047, 64512 >> }
WbCoeffs == { << 2000, 1000, 1500 >>, << 1000, 1000, 1000 >> }
XtransArrays ==
  { << 1,1,0,1,1,2, 1,1,2,1,1,0, 2,0,1,0,2,1, 1,1,2,1,1,0, 1,1,0,1,1,2, 0,2,1,2,0,1 >>,
    [i \in 1 .. 36 |-> 0] }
CamMatrices ==
  { NoCamMatrix,
    [nan |-> FALSE, m |-> << 6400, -600, -700, -4000, 12000, 2100, -900, 2000, 6500 >>] }
Filters == { XTRANS } \cup BayerFilters

InitDng ==
  /\ params = DefaultParams
  /\ piece_data = NULL
  /\ data = ZeroData
  /\ module_data = NULL
  /\ kernel_velvia = NoKernel
  /\ heap = EmptyHeap
  /\ stage = "uninitialized"
  /\ session = "start"
  /\ mask_display = FALSE
  /\ fault = FALSE
  /\ last = [op |-> "none"]
  /\ tile = NoTile
  /\ par = NoPar
  /\ px = NoPx
  /\ bench = NoBench
  /\ dng \in { [phase |-> "call", wd |-> w, ht |-> h, filter |-> f, xtrans |-> x,
                white |-> wl, wb_coeffs |-> wb, cam |-> c,
                st |-> header_begin, i |-> 0, file |-> NoFile] :
               w \in 1 .. MaxW, h \in 1 .. MaxH, f \in Filters, x \in XtransArrays,
               wl \in WhiteLevels, wb \in WbCoeffs, c \in CamMatrices }

DngFrame ==
  UNCHANGED << params, piece_data, data, module_data, kernel_velvia, heap,
               stage, session, mask_display, fault, last, tile, par, px, bench >>

\* dt_imageio_write_dng: g_fopen(filename, "wb"); nothing happens when it fails
Dng_open ==
  /\ dng.phase = "call"
  /\ \E opened \in BOOLEAN :
       dng' = IF opened
                THEN [dng EXCEPT !.phase = "tags", !.i = 1, !.st = header_begin,
                                 !.file = [NoFile EXCEPT !.opened = TRUE]]
                ELSE [dng EXCEPT !.phase = "written"]
  /\ DngFrame

\* the next call of dt_imageio_dng_make_tag
Dng_make_tag ==
  /\ dng.phase = "tags"
  /\ LET tags == HeaderTags(dng.wd, dng.ht, dng.filter, dng.white)
     IN /\ dng.i <= Len(tags)
        /\ dng' = [dng EXCEPT
                     !.st = dt_imageio_dng_make_tag(tags[dng.i][1], tags[dng.i][2],
                                                    tags[dng.i][3], tags[dng.i][4], dng.st),
                     !.i = @ + 1]
  /\ DngFrame

\* the rest of the header buffer, lines 167-196
Dng_header_data ==
  /\ dng.phase = "tags"
  /\ dng.i > Len(HeaderTags(dng.wd, dng.ht, dng.filter, dng.white))
  /\ dng' = [dng EXCEPT
               !.phase = "fwrite",
               !.st.buf = header_end(dng.st, dng.xtrans, dng.wb_coeffs, dng.cam)]
  /\ DngFrame

\* fwrite(buf, 1, 584, fp): all of it, or less and a message on stderr
Dng_write_header ==
  /\ dng.phase = "fwrite"
  /\ \E written \in {0, HeaderSize \div 2, HeaderSize} :
       dng' = [dng EXCEPT
                 !.phase = "data",
                 !.file.hdr = [j \in 1 .. written |-> dng.st.buf[j - 1]],
                 !.file.errors = IF written # HeaderSize THEN {"header"} ELSE {}]
  /\ DngFrame

\* fwrite(pixel, sizeof(float), wd * ht, f); fclose(f)
Dng_write_pixels ==
  /\ dng.phase = "data"
  /\ \E k \in {0, dng.wd * dng.ht} :
       dng' = [dng EXCEPT
                 !.phase = "written",
                 !.file.data_at = Len(dng.file.hdr),
                 !.file.data_len = 4 * k,
                 !.file.errors = @ \cup (IF k # dng.wd * dng.ht THEN {"data"} ELSE {})]
  /\ DngFrame

NextDng ==
  \/ Dng_open
  \/ Dng_make_tag
  \/ Dng_header_data
  \/ Dng_write_header
  \/ Dng_write_pixels

SpecDng == InitDng /\ [][NextDng]_vars

(***************************************************************************)
(* Properties of the session (specification Spec).                         *)
(***************************************************************************)
InUnit(v) == v >= 0 /\ v <= FX
RegionFloats(roi) == { i \in MemIdx : i < CH * roi.width * roi.height }

\* C1: identity law of the general path.  Whenever process() ran on working
\* data whose strength is <= 0, every float of every pixel of the output
\* region equals the input's, with the mask display on or off.
IdentityLaw ==
  (last.op = "process" /\ data.strength <= 0) =>
     \A i \in RegionFloats(last.roi_out) : last.ovoid[i] = Image(last.image)[i]

\* a negative strength, the mask display on, the largest region, an image
\* with pixels outside [0,1]
IdentityLawWitness ==
  /\ last.op = "process" /\ data.strength < 0 /\ mask_display
  /\ last.roi_out.width = MaxW /\ last.roi_out.height = MaxH
  /\ \E i \in RegionFloats(last.roi_out) : last.ovoid[i] > FX

\* C2: the accelerator path takes the short-circuit exactly when the general
\* path does on the same working data: then its only device call is one copy
\* of the image from input to output; otherwise it enqueues one kernel and no
\* copy, and the kernel's strength and bias arguments are data->strength/100
\* and data->bias, the values the general path computes with.
CallsOf(calls, fn) == { i \in 1 .. Len(calls) : calls[i].fn = fn }
KernelArg(calls, num) == { calls[i].value : i \in { j \in CallsOf(calls, "set_kernel_arg") : calls[j].num = num } }
AcceleratorShortCircuit ==
  last.op = "process_cl" =>
    LET general == process(data, CH, mask_display, Image(0), FreshOut, last.roi_in, last.roi_out)
    IN IF general.path = "copy"
         THEN /\ Cardinality(CallsOf(last.calls, "enqueue_copy_image")) = 1
              /\ Len(last.calls) = 1
              /\ last.calls[1].src = "dev_in" /\ last.calls[1].dst = "dev_out"
         ELSE /\ Cardinality(CallsOf(last.calls, "enqueue_kernel_2d")) = 1
              /\ CallsOf(last.calls, "enqueue_copy_image") = {}
              /\ KernelArg(last.calls, 4) = { StrengthOf(data) }
              /\ KernelArg(last.calls, 5) = { data.bias }

\* the accelerator path ran on a strength of exactly zero
AcceleratorShortCircuitWitness ==
  /\ last.op = "process_cl" /\ data.strength = 0
  /\ last.calls[1].fn = "enqueue_copy_image" /\ last.ret

\* C3: legacy_params returns 0 only for old_version = 1 and new_version = 2;
\* for every other pair it returns non-zero and leaves the new blob, the old
\* blob and the module's state as they were.
LegacyParamsContract ==
  [][ last'.op = "legacy_params" =>
        /\ (last'.ret = 0) <=> (last'.old_version = 1 /\ last'.new_version = 2)
        /\ last'.old_after = last'.old_before
        /\ last'.ret # 0 => last'.new_after = last'.new_before
        /\ UNCHANGED << params, piece_data, data, module_data, kernel_velvia, heap,
                        stage, session, mask_display, fault >> ]_vars

\* a version 1 blob offered for a target version other than 2 was refused
LegacyParamsWitness ==
  /\ last.op = "legacy_params" /\ last.old_version = 1 /\ last.new_version = 3
  /\ last.ret = 1 /\ last.new_after = DefaultParams

ReleaseSafe ==
  /\ \A b \in Blocks : heap.nfree[b] <= 1
  /\ last.op = "cleanup_pipe" =>
       /\ piece_data = NULL
       /\ heap.live \subseteq {module_data}
       /\ ~fault

\* a second release, after a release that freed the working data
ReleaseSafeWitness ==
  /\ last.op = "cleanup_pipe" /\ last.from = "released" /\ last.freed = NULL
  /\ \E b \in Blocks \ {module_data} : heap.nfree[b] = 1

\* C8: commit_params on an instance that has working data neither allocates
\* nor frees, leaves the Parameters as they are, and leaves the working data
\* with the strength and the bias of the Parameters just committed.
CommitIsProjection ==
  [][ (last'.op = "commit_params" /\ piece_data # NULL) =>
        /\ heap' = heap
        /\ piece_data' = piece_data
        /\ params' = params
        /\ data'.strength = params.strength /\ data'.bias = params.bias
        /\ last'.committed = params ]_vars

\* a later commit replaced the working data of an earlier commit
CommitIsProjectionWitness ==
  /\ last.op = "commit_params" /\ ~fault
  /\ last.before # ZeroData /\ last.before # data /\ last.before.bias # data.bias
  /\ data = params

\* C9: an allocation failure of init_pipe is a capability downgrade: no later
\* commit dereferences the working data that is missing.
AllocFailureIsNonFatal == last.op = "commit_params" => ~fault

\* C11: out-of-range parameter fields are clamped where they are used, not
\* where they are migrated: legacy_params(1->2) stores saturation*vibrance/100
\* and luminance as they come, and the strength and the bias an executor
\* computes with lie within the declared ranges, strength/100 in [0,1] and
\* bias in [0,1].
ClampedAtPointOfUse ==
  /\ (last.op = "legacy_params" /\ last.ret = 0) =>
       /\ last.new_after.strength
            = FDiv(FMul(last.old_before.saturation, last.old_before.vibrance), 100 * FX)
       /\ last.new_after.bias = last.old_before.luminance
  /\ (last.op = "process" /\ last.path = "transform") =>
       /\ StrengthOf(data) >= 0 /\ StrengthOf(data) <= FX
       /\ data.bias >= 0 /\ data.bias <= FX
  /\ last.op = "process_cl" =>
       /\ \A v \in KernelArg(last.calls, 4) : v >= 0 /\ v <= FX
       /\ \A b \in KernelArg(last.calls, 5) : b >= 0 /\ b <= FX

\* C10: process_cl returns TRUE only if every device call it issued succeeded
\* (the six kernel arguments, the kernel, the copy), FALSE otherwise.
DeviceErrorsReported ==
  last.op = "process_cl" =>
    (last.ret <=> \A i \in 1 .. Len(last.calls) : last.calls[i].err = CL_SUCCESS)

\* C13: the alpha channel in the transform branch.  The 4th float of each
\* output pixel of the region is written if and only if the pipeline displays
\* the mask, and then it equals the input pixel's 4th float; otherwise it is
\* what the output buffer held before the call.  The three colour floats are
\* written in both cases.
AlphaHandling ==
  (last.op = "process" /\ last.path = "transform") =>
    \A k \in 0 .. (last.roi_out.width * last.roi_out.height - 1) :
      LET a == CH * k + 3
      IN /\ (a \in last.wr) <=> mask_display
         /\ mask_display => last.ovoid[a] = Image(last.image)[a]
         /\ ~mask_display => last.ovoid[a] = FreshOut[a]
         /\ \A c \in 0 .. 2 : (CH * k + c) \in last.wr /\ InUnit(last.ovoid[CH * k + c])

\* the transform ran over the largest region while the mask was displayed
AlphaHandlingWitness ==
  /\ last.op = "process" /\ last.path = "transform" /\ mask_display
  /\ last.roi_out.width = MaxW /\ last.roi_out.height = MaxH
  /\ \A k \in 0 .. (MaxW * MaxH - 1) :
       /\ last.ovoid[CH * k + 3] = Image(last.image)[CH * k + 3]
       /\ last.ovoid[CH * k + 3] # FreshOut[CH * k + 3]
  /\ \E k \in 0 .. (MaxW * MaxH - 1) : last.ovoid[CH * k] # Image(last.image)[CH * k]

(***************************************************************************)
(* Properties of tiling (SpecTile) and of the parallel loop (SpecPar).     *)
(***************************************************************************)
\* the output image of one process() call on the whole image
WholeOut == process(data, CH, mask_display, Image(tile.image), FreshOut, WholeRoi, WholeRoi).ovoid
TileDone == UNION { TilePixels(roi) : roi \in tile.rois }
PixelAt(buf, p) == << buf[CH * p], buf[CH * p + 1], buf[CH * p + 2], buf[CH * p + 3] >>

\* C4: region-size invariance.  However the image was cut into tiles, every
\* pixel processed so far holds what one process() call on the whole image
\* gives it, and two pixels with the same input hold the same output: the
\* output depends on the pixel's input and the working data, not on the
\* region's origin, width or height.
RegionSizeInvariance ==
  /\ \A p \in TileDone : PixelAt(tile.out, p) = PixelAt(WholeOut, p)
  /\ \A p, q \in TileDone :
       PixelAt(Image(tile.image), p) = PixelAt(Image(tile.image), q)
         => PixelAt(tile.out, p) = PixelAt(tile.out, q)

\* the image was processed as the two sides of one cut, by the transform,
\* and two pixels with equal input lie in different tiles
RegionSizeInvarianceWitness ==
  /\ StrengthOf(data) > 0
  /\ \E a, b \in tile.rois :
       /\ a # b /\ tile.rois = {a, b}
       /\ TilePixels(a) \cap TilePixels(b) = {}
       /\ TilePixels(a) \cup TilePixels(b) = TilePixels(WholeRoi)
       /\ \E p \in TilePixels(a), q \in TilePixels(b) :
            PixelAt(Image(tile.image), p) = PixelAt(Image(tile.image), q)
  /\ \E p \in TileDone : PixelAt(tile.out, p) # PixelAt(Image(tile.image), p)

\* C6: the iterations share no mutable state.  Iteration k reads only floats
\* of input pixel k and writes only floats of output pixel k, so no float is
\* written by two iterations; and when every iteration has finished, in
\* whatever order and on whatever thread, the output buffer is the one the
\* sequential loop leaves.
ParallelLoopEqualsSequential ==
  /\ \A i \in MemIdx : par.rdlog[i] \subseteq { i \div CH } /\ par.wrlog[i] \subseteq { i \div CH }
  /\ \A i \in MemIdx : Cardinality(par.wrlog[i]) <= 1
  /\ par.finished = 0 .. (par.n - 1) =>
       \A i \in MemIdx :
         par.out[i] = process_loop(data, CH, ParIn, FreshOut, ParRoi).ovoid[i]

\* the iterations were shared between different threads and the loop is
\* complete
ParallelLoopWitness ==
  /\ par.finished = 0 .. (par.n - 1)
  /\ \E j, k \in 0 .. (par.n - 1) : par.asg[j] # par.asg[k]
  /\ par.out[0] # Garbage[1]

(***************************************************************************)
(* Properties of one pixel (specification SpecPixel).                      *)
(***************************************************************************)
PixelInRange == \A c \in 1 .. 3 : InUnit(px.pixel[c])
DataInRange == data.strength >= 0 /\ data.strength <= 100 * FX /\ InUnit(data.bias)

\* C12: output clamping.  For an input pixel whose three colour channels are
\* within [0,1], a strength within [0,100] and a bias within [0,1], each of
\* the three colour channels process() writes is within [0,1].
OutputClamping ==
  (px.phase = "out" /\ PixelInRange /\ DataInRange) => \A c \in 1 .. 3 : InUnit(px.out[c])

\* strength 100 and bias 0 took the red of (0.8, 0.2, 0.2) to the upper bound
OutputClampingWitness ==
  /\ px.phase = "out" /\ px.path = "transform"
  /\ data = Params(100 * FX, 0)
  /\ px.pixel[1] = (4 * FX) \div 5 /\ px.pixel[2] = FX \div 5 /\ px.pixel[3] = FX \div 5
  /\ px.out[1] = FX /\ px.out[2] > 0 /\ px.out[2] < FX \div 5

\* C14: no division of the loop body has a zero denominator.  For an input
\* pixel with channels within [0,1] and a bias within [0,1] the denominator of
\* the saturation estimate, in the branch the pixel takes, and the denominator
\* of the weight are strictly positive; and a pixel whose luminance is exactly
\* 0.5, such as (0.8, 0.2, 0.2), takes the branch plum <= 0.5, whose
\* denominator is 1e-5 + pmax + pmin.
NoZeroDenominator ==
  (px.phase = "out" /\ px.path = "transform" /\ PixelInRange /\ InUnit(data.bias)) =>
     /\ px.trace.sat_den > 0
     /\ px.trace.weight_den > 0
     /\ px.trace.plum = FX \div 2 =>
          /\ px.trace.low
          /\ px.trace.sat_den = 1 + (EPS_INV \div FX) * (px.trace.pmax + px.trace.pmin)

\* the scenario pixel (0.8, 0.2, 0.2) at strength 25 and bias 1
NoZeroDenominatorWitness ==
  /\ px.phase = "out" /\ px.path = "transform"
  /\ data = Params(25 * FX, FX)
  /\ px.pixel[1] = (4 * FX) \div 5 /\ px.pixel[2] = FX \div 5 /\ px.pixel[3] = FX \div 5
  /\ px.trace.plum = FX \div 2 /\ px.trace.low
  /\ px.trace.weight_den = FX

(***************************************************************************)
(* Properties of darktable-bench (specification SpecBench).                *)
(***************************************************************************)
\* the value of the last line of the trace that has the phrase, 0.0 if none has
Matching(trace, phrase) == { i \in 1 .. Len(trace) : Has(trace[i], phrase) }
LastValue(trace, phrase) ==
  IF Matching(trace, phrase) = {} THEN 0
  ELSE LET i == CHOOSE i \in Matching(trace, phrase) : \A j \in Matching(trace, phrase) : j <= i
       IN extract_seconds(trace[i])
\* a line without 'took', or without 'sec' after it
LacksTime(line) ==
  \/ \A i \in 1 .. Len(line) : line[i].w # "took"
  \/ \E i \in 1 .. Len(line) :
       /\ line[i].w = "took" /\ \A j \in 1 .. (i - 1) : line[j].w # "took"
       /\ \A j \in (i + 1) .. Len(line) : line[j].w # "sec"

BenchRunAggregates(run) ==
  LET load == LastValue(run.trace, << "to load the image" >>)
      pipe == LastValue(run.trace, << "pipeline processing", "took" >>)
      save == IF Matching(run.trace, << "to save the image" >>) = {}
                THEN load ELSE LastValue(run.trace, << "to save the image" >>)
  IN /\ run.p = pipe
     /\ run.t = load + pipe + save
     /\ run.g <=> \E i \in 1 .. Len(run.trace) : Has(run.trace[i], << "GPU" >>)
     /\ \A i \in 1 .. Len(run.trace) : LacksTime(run.trace[i]) => extract_seconds(run.trace[i]) = 0

RECURSIVE SumOf(_, _)
SumOf(runs, f) == IF runs = << >> THEN 0 ELSE runs[1][f] + SumOf(Tail(runs), f)

BenchEnded == bench.pc \in {"done", "raised"}
BenchMeans ==
  /\ 2 * Abs(bench.report.pixpipe * bench.reps - SumOf(bench.runs, "p")) <= bench.reps
  /\ 2 * Abs(bench.report.total * bench.reps - SumOf(bench.runs, "t")) <= bench.reps
  /\ Len(bench.runs) = bench.reps
BenchGpuReported ==
  (\E i \in 1 .. Len(bench.runs) : bench.runs[i].g) <=> bench.report.gpu = "using GPU"

\* C15: timing aggregation.  Every run returned the pipeline time of the last
\* pipeline line, and as total the load time of the last load line plus the
\* pipeline time plus the save time, the save time being the load time when
\* no line reported one; a line lacking 'took' or a following 'sec' counts as
\* 0.0.  When main has ended it has reported the means of the runs' pipeline
\* and total times over the repetitions, and GPU use exactly if the output of
\* some run mentioned 'GPU'.
BenchAggregation ==
  /\ \A i \in 1 .. Len(bench.runs) : BenchRunAggregates(bench.runs[i])
  /\ BenchEnded => BenchMeans /\ BenchGpuReported

(***************************************************************************)
(* Properties of the DNG writer (specification SpecDng): the header as a   *)
(* TIFF reader sees it.                                                    *)
(***************************************************************************)
HeaderByte(o) == dng.st.buf[o]
HeaderShort(o) == HeaderByte(o) * 256 + HeaderByte(o + 1)
HeaderLong(o) == << HeaderShort(o), HeaderShort(o + 2) >>
TypeSize(type) ==
  IF type = BYTE \/ type = ASCII THEN 1
  ELSE IF type = SHORT THEN 2
  ELSE IF type = LONG THEN 4
  ELSE 8
\* the directory at offset 10: its entry count, and entry i (from 0)
DirEntries == HeaderShort(10)
EntryAt(i) ==
  [tag |-> HeaderShort(12 + 12 * i), type |-> HeaderShort(14 + 12 * i),
   count |-> HeaderLong(16 + 12 * i), value |-> HeaderLong(20 + 12 * i)]
\* an entry whose data does not fit its four value bytes stores an offset
StoresOffset(e) == e.count[1] > 0 \/ e.count[2] * TypeSize(e.type) > 4
DataRange(e) == e.value[2] .. (e.value[2] + e.count[2] * TypeSize(e.type) - 1)
DirectoryRange == 10 .. (12 + 12 * DirEntries + 4 - 1)
OffsetEntries == { i \in 0 .. (DirEntries - 1) : StoresOffset(EntryAt(i)) }
\* the header buffer is complete; the file was written without a reported error
HeaderBuilt == dng.phase \in {"fwrite", "data", "written"} /\ dng.file.opened
DngWritten == dng.phase = "written" /\ dng.file.opened /\ dng.file.errors = {}

====
